---- MODULE Spec2Model ----
(***************************************************************************)
(* Model of API/colkection/ko.py: a script that loads a Postman collection *)
(* (a JSON document), walks its "item" forest with clean_item, rewrites    *)
(* every node that has no "item" key with name_item, and dumps the tree    *)
(* back to the same file.                                                  *)
(*                                                                         *)
(* JSON values are encoded uniformly as records [t, s, ks, l]:             *)
(*   t  the Python type ("dict", "list", "str", "null"),                   *)
(*   s  the text of a str,                                                 *)
(*   ks the keys of a dict in insertion order,                             *)
(*   l  the elements of a list, or the values of a dict (parallel to ks).  *)
(* json.load builds a tree of fresh objects (no aliasing), so the in-place *)
(* mutation through references is an update of the tree at a path.         *)
(***************************************************************************)
EXTENDS Integers, Sequences, FiniteSets, TLC

VARIABLES
    file,    \* the collection file on disk
    data,    \* the module-level variable data: the tree in memory
    pc,      \* position of the script: start, toploop, walk, save, done, aborted
    stack,   \* the for loop of line 42 (bottom) and the active clean_item calls
    err,     \* the exception that ended the run ("" if none)
    errAt,   \* history: path of the node whose visit raised err
    input,   \* history: the tree as json.load returned it in this run
    log,     \* history: paths handed to name_item in this run, in call order
    opens,   \* history: number of times this run opened the file for writing
    runs,    \* number of runs of the script so far (the current one included)
    disk0    \* history: the file as it was when this run started

vars == <<file, data, pc, stack, err, errAt, input, log, opens, runs, disk0>>

\* Largest document tried: item nodes plus event elements (plus one if the
\* root carries keys besides "item").
MaxSize == 3
\* How many times in a row the script is run on the same file.
MaxRuns == 2
\* Largest document tried under the fair specification.
LiveSize == 4

-----------------------------------------------------------------------------
(* JSON values *)

Str(x) == [t |-> "str", s |-> x, ks |-> <<>>, l |-> <<>>]
Null == [t |-> "null", s |-> "", ks |-> <<>>, l |-> <<>>]
List(elems) == [t |-> "list", s |-> "", ks |-> <<>>, l |-> elems]
Dict(keys, vals) == [t |-> "dict", s |-> "", ks |-> keys, l |-> vals]

IsDict(v) == v.t = "dict"

\* k in list(d.keys())
HasKey(d, k) == \E i \in 1..Len(d.ks) : d.ks[i] = k

KeyIndex(d, k) == CHOOSE i \in 1..Len(d.ks) : d.ks[i] = k

\* d[k]
Get(d, k) == d.l[KeyIndex(d, k)]

\* d[k] = v : an existing key keeps its position, a new key goes last
Put(d, k, v) ==
    IF HasKey(d, k)
    THEN [d EXCEPT !.l[KeyIndex(d, k)] = v]
    ELSE [d EXCEPT !.ks = Append(@, k), !.l = Append(@, v)]

\* The characters of the strs that appear where the script iterates.
Chars(s) ==
    CASE s = "" -> <<>>
      [] s = "x" -> <<"x">>
      [] s = "ab" -> <<"a", "b">>
      [] OTHER -> <<s>>

\* iter(v): a list yields its elements, a dict its keys, a str its
\* characters; anything else raises TypeError (ok = FALSE).
Iter(v) ==
    CASE v.t = "list" -> [ok |-> TRUE, seq |-> v.l]
      [] v.t = "dict" -> [ok |-> TRUE, seq |-> [i \in 1..Len(v.ks) |-> Str(v.ks[i])]]
      [] v.t = "str" -> [ok |-> TRUE,
                         seq |-> [i \in 1..Len(Chars(v.s)) |-> Str(Chars(v.s)[i])]]
      [] OTHER -> [ok |-> FALSE, seq |-> <<>>]

-----------------------------------------------------------------------------
(* name_item *)

FixedRequest ==
    Dict(<<"method", "header">>,
         <<Str("POST"),
           List(<<Dict(<<"key", "value", "type">>,
                       <<Str("Authorization"), Str("Bearer {{access_token}}"),
                         Str("text")>>)>>)>>)

FixedScript ==
    Dict(<<"type", "exec">>,
         <<Str("text/javascript"),
           List(<<Str("pm.variables.set('access_token', pm.response.json().access_token);")>>)>>)

FixedResponse ==
    List(<<Dict(<<"name">>, <<Str("Success response ")>>),
           Dict(<<"name">>, <<Str("Error response ")>>)>>)

\* event['script'] = {...} succeeds on a dict only.
CanSetItem(ev) == IsDict(ev)

\* Index of the first element of the iteration the assignment fails on
\* (one past the end if there is none).
FirstBad(evs) ==
    IF \E i \in 1..Len(evs) : ~CanSetItem(evs[i])
    THEN CHOOSE i \in 1..Len(evs) :
            /\ ~CanSetItem(evs[i])
            /\ \A j \in 1..(i - 1) : CanSetItem(evs[j])
    ELSE Len(evs) + 1

\* Mutant: the loop rebinds its variable (event = {...}) and changes nothing.
EventLoopRebinds(ev) ==
    IF ~Iter(ev).ok THEN [val |-> ev, err |-> "TypeError"]
    ELSE [val |-> ev, err |-> ""]

\* The event loop of lines 15-21 run on the value of subitem['event'].
\* Elements are rewritten in place, in order, up to the first failure.
EventLoop(ev) ==
    LET it == Iter(ev)
        b == FirstBad(it.seq)
    IN  IF ~it.ok THEN [val |-> ev, err |-> "TypeError"]
        ELSE [val |-> IF ev.t = "list"
                      THEN [ev EXCEPT !.l = [i \in 1..Len(ev.l) |->
                                IF i < b THEN Put(ev.l[i], "script", FixedScript)
                                ELSE ev.l[i]]]
                      ELSE ev,
              err |-> IF b <= Len(it.seq) THEN "TypeError" ELSE ""]

\* The mutants of name_item: the node a after the request step, then the
\* event loop, then val stored under key.
NameItemVariant(a, key, val) ==
    IF HasKey(a, "event")
    THEN LET r == EventLoop(Get(a, "event"))
             b == Put(a, "event", r.val)
         IN  IF r.err # "" THEN [node |-> b, err |-> r.err]
             ELSE [node |-> Put(b, key, val), err |-> ""]
    ELSE [node |-> Put(a, key, val), err |-> ""]

\* Mutant: request is set only where there is none (setdefault).
NameItemKeepsRequest(subitem) ==
    NameItemVariant(IF HasKey(subitem, "request") THEN subitem
                    ELSE Put(subitem, "request", FixedRequest),
                    "response", FixedResponse)

\* Mutant: response is set only where there is none (setdefault).
NameItemKeepsResponse(subitem) ==
    NameItemVariant(Put(subitem, "request", FixedRequest), "response",
                    IF HasKey(subitem, "response") THEN Get(subitem, "response")
                    ELSE FixedResponse)

\* Mutant: the placeholders are appended to the responses already there.
NameItemAppendsResponse(subitem) ==
    NameItemVariant(Put(subitem, "request", FixedRequest), "response",
                    IF HasKey(subitem, "response") /\ Get(subitem, "response").t = "list"
                    THEN List(Get(subitem, "response").l \o FixedResponse.l)
                    ELSE FixedResponse)

\* Mutant: the placeholders are stored under the key "item".
NameItemWrongKey(subitem) ==
    NameItemVariant(Put(subitem, "request", FixedRequest), "item", FixedResponse)

\* Mutant: the node is cleared (its events apart) before it is filled in.
NameItemClears(subitem) ==
    NameItemVariant(Put(IF HasKey(subitem, "event")
                        THEN Dict(<<"event">>, <<Get(subitem, "event")>>)
                        ELSE Dict(<<>>, <<>>),
                        "request", FixedRequest),
                    "response", FixedResponse)

\* name_item(subitem): the node as the call leaves it, and the exception
\* it raised (if any).
NameItem(subitem) ==
    LET a == Put(subitem, "request", FixedRequest)
    IN  IF HasKey(a, "event")
        THEN LET r == EventLoop(Get(a, "event"))
                 b == Put(a, "event", r.val)
             IN  IF r.err # "" THEN [node |-> b, err |-> r.err]
                 ELSE [node |-> Put(b, "response", FixedResponse), err |-> ""]
        ELSE [node |-> Put(a, "response", FixedResponse), err |-> ""]

-----------------------------------------------------------------------------
(* The tree and its paths *)

\* Mutant: a folder is a node whose "item" is truthy (subitem.get('item')).
IsFolderTruthy(v) ==
    /\ HasKey(v, "item")
    /\ Get(v, "item").t # "null"
    /\ Get(v, "item") \notin {List(<<>>), Dict(<<>>, <<>>), Str("")}

\* 'item' in list(subitem.keys())
IsFolder(v) == HasKey(v, "item")

\* What `for item in subitem['item']` iterates over.
Children(v) == Iter(Get(v, "item")).seq

RECURSIVE NodeAt(_, _)
\* The value reached from v through the "item" iterations along path p.
NodeAt(v, p) ==
    IF p = <<>> THEN v ELSE NodeAt(Children(v)[Head(p)], Tail(p))

RECURSIVE SetAt(_, _, _)
\* The tree v with the node at path p replaced by n.
SetAt(v, p, n) ==
    IF p = <<>> THEN n
    ELSE LET it == Get(v, "item")
         IN  Put(v, "item",
                 [it EXCEPT !.l[Head(p)] = SetAt(it.l[Head(p)], Tail(p), n)])

\* Mutant: the loop runs over reversed(subitem['item']).
ChildIndexReversed(n, k) == n - k + 1

\* The k-th iteration of a for loop over n elements visits element k.
ChildIndex(n, k) == k

-----------------------------------------------------------------------------
(* The file *)

Indent == 4

\* json.dump(data, file, indent=4)
Dump(v) == [kind |-> "json", doc |-> v, indent |-> Indent]

Missing == [kind |-> "missing", doc |-> Null, indent |-> 0]
Garbage == [kind |-> "garbage", doc |-> Null, indent |-> 0]

-----------------------------------------------------------------------------
(* Documents the script is run on *)

OldRequest ==
    Dict(<<"method", "header", "url", "body">>,
         <<Str("GET"),
           List(<<Dict(<<"key", "value">>, <<Str("Accept"), Str("*/*")>>),
                  Dict(<<"key", "value">>, <<Str("X-Id"), Str("1")>>)>>),
           Str("{{base}}/users"),
           Dict(<<"mode">>, <<Str("raw")>>)>>)

OldResponses ==
    List(<<Dict(<<"name", "code">>, <<Str("200 OK"), Str("200")>>),
           Dict(<<"name">>, <<Str("404")>>),
           Dict(<<"name">>, <<Str("Success response ")>>)>>)

EventPool ==
    { Dict(<<"listen", "script">>,
           <<Str("test"), Dict(<<"exec">>, <<List(<<Str("old")>>)>>)>>),
      Dict(<<"listen">>, <<Str("prerequest")>>),
      Str("x") }

\* Nodes without an "item" key, by size (1 + number of event elements).
\* The thin families keep one node of each kind: they vary the shape of the
\* forest only.
LeavesOfSize(n, thin) ==
    IF thin
    THEN IF n = 1 THEN { Dict(<<"name">>, <<Str("Get User")>>) } ELSE {}
    ELSE IF n = 1
    THEN { Dict(<<"name">>, <<Str("Get User")>>),
           Dict(<<"response", "name", "request", "description">>,
                <<OldResponses, Str("List Users"), OldRequest, Str("d")>>),
           Dict(<<"name", "response", "event">>,
                <<Str("Ping"), List(<<>>), List(<<>>)>>),
           Dict(<<"name", "event">>, <<Str("Broken"), Null>>) }
    ELSE { Dict(<<"name", "event", "request">>,
                <<Str("Login"), List(evs), OldRequest>>) :
             evs \in [1..(n - 1) -> EventPool] }

\* Nodes that are not mappings, and nodes whose "item" is not a list.
OddNodes(thin) ==
    IF thin THEN { Str("x") }
    ELSE { Str("x"),
           Dict(<<"name", "item">>, <<Str("Bad"), Null>>),
           Dict(<<"item">>, <<Str("ab")>>) }

FolderOf(rich, kids) ==
    IF rich
    THEN Dict(<<"request", "item", "event", "response", "name">>,
              <<OldRequest, List(kids),
                List(<<Dict(<<"listen">>, <<Str("test")>>)>>),
                OldResponses, Str("Folder B")>>)
    ELSE Dict(<<"name", "item">>, <<Str("Folder A"), List(kids)>>)

RECURSIVE NodesOfSize(_, _), ForestsOfSize(_, _)
NodesOfSize(n, thin) ==
    LeavesOfSize(n, thin)
    \cup (IF n = 1 THEN OddNodes(thin) ELSE {})
    \cup { FolderOf(rich, f) : rich \in (IF thin THEN {FALSE} ELSE BOOLEAN),
                               f \in ForestsOfSize(n - 1, thin) }

ForestsOfSize(n, thin) ==
    IF n = 0 THEN { <<>> }
    ELSE UNION { { <<x>> \o f : x \in NodesOfSize(k, thin),
                                f \in ForestsOfSize(n - k, thin) } : k \in 1..n }

Forests(n, thin) == UNION { ForestsOfSize(k, thin) : k \in 0..n }

RootBare(f) == Dict(<<"item">>, <<List(f)>>)

RootFull(f) ==
    Dict(<<"info", "item", "variable">>,
         <<Dict(<<"name">>, <<Str("Products")>>), List(f),
           List(<<Dict(<<"key">>, <<Str("base")>>)>>)>>)

\* Roots the top-level loop cannot iterate.
OddRoots ==
    { List(<<>>),
      Dict(<<"info">>, <<Dict(<<"name">>, <<Str("Products")>>)>>),
      Dict(<<"item">>, <<Null>>) }

Docs(n, thin) ==
    { RootBare(f) : f \in Forests(n, thin) }
    \cup (IF n > 0 THEN { RootFull(f) : f \in Forests(n - 1, thin) } ELSE {})
    \cup OddRoots

Files(n, thin) ==
    { [kind |-> "json", doc |-> d, indent |-> 2] : d \in Docs(n, thin) }
    \cup { Missing, Garbage }

-----------------------------------------------------------------------------
(* The script *)

InitFrom(files) ==
    /\ file \in files
    /\ disk0 = file
    /\ data = Null
    /\ input = Null
    /\ pc = "start"
    /\ stack = <<>>
    /\ err = ""
    /\ errAt = <<>>
    /\ log = <<>>
    /\ opens = 0
    /\ runs = 1

Init == InitFrom(Files(MaxSize, FALSE))

\* The documents of the fair specification: every shape, one node of each kind.
InitLive == InitFrom(Files(LiveSize, TRUE))

\* An exception propagates to the top level and ends the process.
Abort(e, at) ==
    /\ pc' = "aborted"
    /\ err' = e
    /\ errAt' = at

\* with open(..., 'r') as file: data = json.load(file)
Load ==
    /\ pc = "start"
    /\ CASE file.kind = "missing" ->
              Abort("FileNotFoundError", <<>>) /\ UNCHANGED <<data, input>>
         [] file.kind = "garbage" ->
              Abort("JSONDecodeError", <<>>) /\ UNCHANGED <<data, input>>
         [] OTHER ->
              /\ data' = file.doc
              /\ input' = file.doc
              /\ pc' = "toploop"
              /\ UNCHANGED <<err, errAt>>
    /\ UNCHANGED <<file, stack, log, opens, runs, disk0>>

\* for item in data['item']:   (the loop is set up)
TopLoop ==
    /\ pc = "toploop"
    /\ IF ~IsDict(data) THEN Abort("TypeError", <<>>) /\ UNCHANGED stack
       ELSE IF ~HasKey(data, "item") THEN Abort("KeyError", <<>>) /\ UNCHANGED stack
       ELSE IF ~Iter(Get(data, "item")).ok
            THEN Abort("TypeError", <<>>) /\ UNCHANGED stack
       ELSE /\ stack' = << [path |-> <<>>, k |-> 1] >>
            /\ pc' = "walk"
            /\ UNCHANGED <<err, errAt>>
    /\ UNCHANGED <<file, data, input, log, opens, runs, disk0>>

Top == stack[Len(stack)]

\* The elements the loop of the top frame runs over.
TopItems == Children(NodeAt(data, Top.path))

\* The frame below the top one moves to its next element.
Return == [i \in 1..(Len(stack) - 1) |->
              IF i = Len(stack) - 1 THEN [stack[i] EXCEPT !.k = @ + 1] ELSE stack[i]]

\* clean_item(item): the call made by the loop of the top frame.
Call ==
    /\ pc = "walk"
    /\ Top.k >= 1
    /\ Top.k <= Len(TopItems)
    /\ stack' = Append(stack,
                       [path |-> Append(Top.path, ChildIndex(Len(TopItems), Top.k)),
                        k |-> 0])
    /\ UNCHANGED <<file, data, pc, err, errAt, input, log, opens, runs, disk0>>

\* Mutant: a folder inside a folder is not walked (one level of recursion,
\* as in the loop left commented out in the script).
CleanItemShallow ==
    /\ pc = "walk"
    /\ Top.k = 0
    /\ LET arg == NodeAt(data, Top.path)
       IN  IF ~IsDict(arg)
           THEN Abort("AttributeError", Top.path) /\ UNCHANGED <<data, stack, log>>
           ELSE IF IsFolder(arg)
           THEN IF Len(Top.path) >= 2
                THEN stack' = Return /\ UNCHANGED <<data, pc, err, errAt, log>>
                ELSE IF ~Iter(Get(arg, "item")).ok
                THEN Abort("TypeError", Top.path) /\ UNCHANGED <<data, stack, log>>
                ELSE /\ stack' = [stack EXCEPT ![Len(stack)].k = 1]
                     /\ UNCHANGED <<data, pc, err, errAt, log>>
           ELSE LET r == NameItem(arg)
                IN  /\ data' = SetAt(data, Top.path, r.node)
                    /\ log' = Append(log, Top.path)
                    /\ IF r.err # ""
                       THEN Abort(r.err, Top.path) /\ UNCHANGED stack
                       ELSE stack' = Return /\ UNCHANGED <<pc, err, errAt>>
    /\ UNCHANGED <<file, input, opens, runs, disk0>>

\* The body of clean_item on its argument, up to its first loop iteration
\* (a folder) or through name_item and the return (a request).
CleanItem ==
    /\ pc = "walk"
    /\ Top.k = 0
    /\ LET arg == NodeAt(data, Top.path)
       IN  IF ~IsDict(arg)
           THEN Abort("AttributeError", Top.path) /\ UNCHANGED <<data, stack, log>>
           ELSE IF IsFolder(arg)
           THEN IF ~Iter(Get(arg, "item")).ok
                THEN Abort("TypeError", Top.path) /\ UNCHANGED <<data, stack, log>>
                ELSE /\ stack' = [stack EXCEPT ![Len(stack)].k = 1]
                     /\ UNCHANGED <<data, pc, err, errAt, log>>
           ELSE LET r == NameItem(arg)
                IN  /\ data' = SetAt(data, Top.path, r.node)
                    /\ log' = Append(log, Top.path)
                    /\ IF r.err # ""
                       THEN Abort(r.err, Top.path) /\ UNCHANGED stack
                       ELSE stack' = Return /\ UNCHANGED <<pc, err, errAt>>
    /\ UNCHANGED <<file, input, opens, runs, disk0>>

\* A for loop is exhausted: clean_item returns, or the top-level loop ends.
LoopEnd ==
    /\ pc = "walk"
    /\ Top.k >= 1
    /\ Top.k > Len(TopItems)
    /\ IF Len(stack) = 1
       THEN stack' = <<>> /\ pc' = "save"
       ELSE stack' = Return /\ pc' = pc
    /\ UNCHANGED <<file, data, err, errAt, input, log, opens, runs, disk0>>

\* Mutant: the dump is indented into the top-level loop and runs after
\* every top-level item.
SaveInsideLoop ==
    \/ /\ pc = "walk"
       /\ Len(stack) = 1
       /\ Top.k > 1
       /\ file # Dump(data)
       /\ file' = Dump(data)
       /\ opens' = opens + 1
       /\ UNCHANGED <<data, pc, stack, err, errAt, input, log, runs, disk0>>
    \/ /\ pc = "save"
       /\ file' = Dump(data)
       /\ pc' = "done"
       /\ UNCHANGED <<data, stack, err, errAt, input, log, opens, runs, disk0>>

\* with open(..., 'w') as file: json.dump(data, file, indent=4)
\* The open may fail, and the write may fail after the open truncated the file.
Save ==
    /\ pc = "save"
    /\ \/ /\ file' = Dump(data)
          /\ opens' = opens + 1
          /\ pc' = "done"
          /\ UNCHANGED <<err, errAt>>
       \/ /\ Abort("PermissionError", <<>>)
          /\ UNCHANGED <<file, opens>>
       \/ /\ file' = Garbage
          /\ opens' = opens + 1
          /\ Abort("OSError", <<>>)
    /\ UNCHANGED <<data, stack, input, log, runs, disk0>>

\* The script is started again on the file it wrote.
Rerun ==
    /\ pc = "done"
    /\ runs < MaxRuns
    /\ runs' = runs + 1
    /\ disk0' = file
    /\ pc' = "start"
    /\ data' = Null
    /\ input' = Null
    /\ stack' = <<>>
    /\ log' = <<>>
    /\ opens' = 0
    /\ UNCHANGED <<file, err, errAt>>

Step == Load \/ TopLoop \/ Call \/ CleanItem \/ LoopEnd \/ Save

Next == Step \/ Rerun

Spec == Init /\ [][Next]_vars

\* The interpreter keeps executing the script while it has a next statement.
FairSpec == InitLive /\ [][Next]_vars /\ WF_vars(Step)

-----------------------------------------------------------------------------
(* Vocabulary of the properties *)

HasItemKey(v) == \E i \in 1..Len(v.ks) : v.ks[i] = "item"

Keys(v) == { v.ks[i] : i \in 1..Len(v.ks) }

RECURSIVE PathsOf(_)
\* The paths of all values met through "item" iterations below v.
PathsOf(v) ==
    IF IsDict(v) /\ HasItemKey(v)
    THEN UNION { { <<i>> } \cup { <<i>> \o p : p \in PathsOf(Children(v)[i]) } :
                 i \in 1..Len(Children(v)) }
    ELSE {}

\* Request leaves: mappings of the item forest without an "item" key.
RequestPaths(v) ==
    { p \in PathsOf(v) : IsDict(NodeAt(v, p)) /\ ~HasItemKey(NodeAt(v, p)) }

\* Folders: mappings of the item forest with an "item" key.
FolderPaths(v) ==
    { p \in PathsOf(v) : IsDict(NodeAt(v, p)) /\ HasItemKey(NodeAt(v, p)) }

RECURSIVE LexLess(_, _)
\* p comes before q in a left-to-right depth-first reading of the tree.
LexLess(p, q) ==
    IF q = <<>> THEN FALSE
    ELSE IF p = <<>> THEN TRUE
    ELSE IF Head(p) # Head(q) THEN Head(p) < Head(q)
    ELSE LexLess(Tail(p), Tail(q))

Logged == { log[i] : i \in 1..Len(log) }

Times(p) == Cardinality({ i \in 1..Len(log) : log[i] = p })

Max(S) == IF S = {} THEN 0 ELSE CHOOSE x \in S : \A y \in S : y <= x

\* Number of levels of "item" lists, the root's included.
Height(v) == Max({ Len(p) : p \in PathsOf(v) })

RECURSIVE Shape(_)
\* The tree reduced to its nodes' kinds, names and positions.
Shape(v) ==
    [kind |-> IF ~IsDict(v) THEN "other"
              ELSE IF HasItemKey(v) THEN "folder" ELSE "request",
     name |-> IF IsDict(v) /\ HasKey(v, "name") THEN Get(v, "name") ELSE Null,
     kids |-> IF IsDict(v) /\ HasItemKey(v) /\ Get(v, "item").t = "list"
              THEN [i \in 1..Len(Get(v, "item").l) |-> Shape(Get(v, "item").l[i])]
              ELSE <<>>]

\* The value of "event" is a list of mappings.
EventListOfDicts(v) ==
    /\ HasKey(v, "event")
    /\ Get(v, "event").t = "list"
    /\ \A i \in 1..Len(Get(v, "event").l) : IsDict(Get(v, "event").l[i])

\* The run ended in done: the file holds the output tree.
Succeeded == pc = "done"

\* The run was aborted by an exception raised during the traversal.
WalkAborted == pc = "aborted" /\ stack # <<>>

-----------------------------------------------------------------------------
(* C1: after a successful run every Request leaf of the output tree, at    *)
(* any depth, has request equal to the fixed POST object with its single   *)
(* Authorization header, whatever request it had before.                   *)
C1_RequestIsFixed ==
    Succeeded =>
        \A p \in RequestPaths(file.doc) :
            /\ HasKey(NodeAt(file.doc, p), "request")
            /\ Get(NodeAt(file.doc, p), "request") = FixedRequest
            /\ Len(Get(Get(NodeAt(file.doc, p), "request"), "header").l) = 1

\* A nested leaf that came with a GET request and two headers was rewritten.
C1_Witness ==
    /\ Succeeded /\ runs = 1
    /\ \E p \in RequestPaths(input) :
          /\ Len(p) >= 2
          /\ HasKey(NodeAt(input, p), "request")
          /\ Get(NodeAt(input, p), "request") = OldRequest
          /\ Get(NodeAt(file.doc, p), "request") = FixedRequest

(* C2: after a successful run every Request leaf has response equal to the *)
(* two placeholders, Success first and Error second, whether it had no     *)
(* response, an empty one or several examples before.                      *)
C2_ResponseIsFixed ==
    Succeeded =>
        \A p \in RequestPaths(file.doc) :
            /\ HasKey(NodeAt(file.doc, p), "response")
            /\ Get(NodeAt(file.doc, p), "response").t = "list"
            /\ Len(Get(NodeAt(file.doc, p), "response").l) = 2
            /\ Get(NodeAt(file.doc, p), "response").l[1]
                  = Dict(<<"name">>, <<Str("Success response ")>>)
            /\ Get(NodeAt(file.doc, p), "response").l[2]
                  = Dict(<<"name">>, <<Str("Error response ")>>)

\* One run over a leaf without response, one with an empty response and one
\* with three examples.
C2_Witness ==
    /\ Succeeded /\ runs = 1
    /\ \E p \in RequestPaths(input) : ~HasKey(NodeAt(input, p), "response")
    /\ \E p \in RequestPaths(input) :
          /\ HasKey(NodeAt(input, p), "response")
          /\ Get(NodeAt(input, p), "response").l = <<>>
    /\ \E p \in RequestPaths(input) :
          /\ HasKey(NodeAt(input, p), "response")
          /\ Len(Get(NodeAt(input, p), "response").l) = 3

(* C3: after a successful run, a Request leaf whose event was a list of    *)
(* mappings has an event list of the same length whose every element has   *)
(* the fixed script and otherwise the keys and values it had, in the same  *)
(* order; a leaf without event still has none.                             *)
C3_EventScripts ==
    Succeeded =>
        \A p \in RequestPaths(input) :
            LET a == NodeAt(input, p)
                b == NodeAt(file.doc, p)
            IN  /\ EventListOfDicts(a) =>
                     /\ HasKey(b, "event")
                     /\ Get(b, "event").t = "list"
                     /\ Len(Get(b, "event").l) = Len(Get(a, "event").l)
                     /\ \A i \in 1..Len(Get(a, "event").l) :
                          LET ea == Get(a, "event").l[i]
                              eb == Get(b, "event").l[i]
                          IN  /\ IsDict(eb)
                              /\ Keys(eb) = Keys(ea) \cup {"script"}
                              /\ Get(eb, "script") = FixedScript
                              /\ \A k \in Keys(ea) \ {"script"} : Get(eb, k) = Get(ea, k)
                /\ ~HasKey(a, "event") => ~HasKey(b, "event")

\* A leaf with two events, one with an old script and one without a script.
C3_Witness ==
    /\ Succeeded /\ runs = 1
    /\ \E p \in RequestPaths(input) :
          LET ev == Get(NodeAt(input, p), "event")
          IN  /\ EventListOfDicts(NodeAt(input, p))
              /\ Len(ev.l) = 2
              /\ \E i \in 1..2 : HasKey(ev.l[i], "script") /\ Get(ev.l[i], "script") # FixedScript
              /\ \E i \in 1..2 : ~HasKey(ev.l[i], "script")
              /\ \A i \in 1..2 : Get(Get(NodeAt(file.doc, p), "event").l[i], "script") = FixedScript

(* C4: a node with an "item" key is never mutated itself, at any point of  *)
(* the run: it keeps its keys and, "item" apart, their values, and it is   *)
(* never handed to name_item, whatever "item" holds (the empty list too).  *)
C4_FoldersUntouched ==
    \A p \in FolderPaths(input) :
        LET a == NodeAt(input, p)
            b == NodeAt(data, p)
        IN  /\ IsDict(b)
            /\ b.ks = a.ks
            /\ \A k \in Keys(a) \ {"item"} : Get(b, k) = Get(a, k)
            /\ Get(b, "item").t = Get(a, "item").t
            /\ p \notin Logged

\* The run is over and passed a folder with an empty "item" list that has
\* request, response and event keys of its own, and mutated a leaf.
C4_Witness ==
    /\ Succeeded /\ runs = 1 /\ log # <<>>
    /\ \E p \in FolderPaths(input) :
          /\ Get(NodeAt(input, p), "item") = List(<<>>)
          /\ HasKey(NodeAt(input, p), "request")
          /\ HasKey(NodeAt(input, p), "event")

(* C5: idempotence: a run on the output of a successful run writes an      *)
(* output equal to its input.                                              *)
C5_Idempotent ==
    (Succeeded /\ runs >= 2) => file = disk0

\* A second run that mutated a nested leaf and a leaf with events again.
C5_Witness ==
    /\ Succeeded /\ runs = 2
    /\ \E p \in Logged : Len(p) >= 2
    /\ \E p \in Logged :
          /\ HasKey(NodeAt(input, p), "event")
          /\ Get(NodeAt(input, p), "event").l # <<>>

(* C6: the file is opened for writing at most once, and only when the load *)
(* and the whole traversal went through: until then, and after an abort by *)
(* the load or the traversal, the file is as the run found it.             *)
C6_NoWriteBeforeSuccess ==
    /\ opens <= 1
    /\ pc \in {"start", "toploop", "walk", "save"} => opens = 0 /\ file = disk0
    /\ (pc = "aborted" /\ err \notin {"OSError"}) => opens = 0 /\ file = disk0
    /\ opens = 1 =>
          /\ IsDict(input) /\ HasKey(input, "item")
          /\ RequestPaths(input) = Logged
          /\ \A p \in PathsOf(input) : IsDict(NodeAt(input, p))

\* An abort in the traversal after a leaf was mutated in memory.
C6_Witness ==
    /\ WalkAborted
    /\ data # input
    /\ file = disk0
    /\ file.kind = "json"

(* C7: at every point of the run the tree has the shape it was loaded      *)
(* with: the same nodes of the same kind, in the same lists, in the same   *)
(* order; so has the output.                                               *)
C7_ShapePreserved ==
    /\ Shape(data) = Shape(input)
    /\ Succeeded => Shape(file.doc) = Shape(input)

\* A run over two top-level items, one of them a folder with a child.
C7_Witness ==
    /\ Succeeded /\ runs = 1
    /\ Len(Children(input)) = 2
    /\ \E p \in FolderPaths(input) : Len(Children(NodeAt(input, p))) >= 1
    /\ data # input

\* At done, name_item was called exactly once on every Request leaf and on
\* nothing else.
CalledOnceEverywhere ==
    Succeeded =>
        /\ \A p \in RequestPaths(input) : Times(p) = 1
        /\ Logged \subseteq RequestPaths(input)

\* The stack holds the top-level loop and the active clean_item calls.
DepthBounded ==
    stack # <<>> => Len(stack) - 1 <= Height(input)

(* C8: every run ends; when it ends in done, name_item was called exactly  *)
(* once on every Request leaf, at every depth, and on nothing else; and    *)
(* the number of active clean_item calls never exceeds the number of       *)
(* levels of "item" lists of the tree (the root's list counted).           *)
C8_WalkTerminates ==
    /\ (pc = "start") ~> (pc \in {"done", "aborted"})
    /\ []CalledOnceEverywhere
    /\ []DepthBounded

\* A leaf three levels down was mutated and the run ended.
C8_Witness ==
    /\ Succeeded /\ runs = 1
    /\ \E p \in Logged : Len(p) = 3

(* C9 as stated: leaves are mutated in document order and, when the        *)
(* traversal aborts at a node, exactly the leaves before that node have    *)
(* been mutated in memory.                                                 *)
C9_Original ==
    /\ \A i, j \in 1..Len(log) : i < j => LexLess(log[i], log[j])
    /\ WalkAborted =>
          { p \in RequestPaths(input) : NodeAt(data, p) # NodeAt(input, p) }
            = { p \in RequestPaths(input) : LexLess(p, errAt) }

(* C9 amended: leaves are mutated in document order, none skipped; when    *)
(* the traversal aborts at a node, the leaves before it are fully mutated  *)
(* and the leaves after it untouched; the node itself is untouched unless  *)
(* it is a Request leaf whose event loop raised, which then has its        *)
(* request replaced and its response not yet.                              *)
C9_DocumentOrder ==
    /\ \A i, j \in 1..Len(log) : i < j => LexLess(log[i], log[j])
    /\ \A j \in 1..Len(log) :
          \A p \in RequestPaths(input) :
              LexLess(p, log[j]) => \E i \in 1..(j - 1) : log[i] = p
    /\ WalkAborted =>
          LET before == { p \in RequestPaths(input) : LexLess(p, errAt) }
              here == IF errAt \in RequestPaths(input) THEN {errAt} ELSE {}
          IN  /\ Logged = before \cup here
              /\ \A p \in before :
                    /\ Get(NodeAt(data, p), "request") = FixedRequest
                    /\ HasKey(NodeAt(data, p), "response")
                    /\ Get(NodeAt(data, p), "response") = FixedResponse
              /\ \A p \in RequestPaths(input) \ (before \cup here) :
                    NodeAt(data, p) = NodeAt(input, p)
              /\ \A p \in here :
                    /\ Get(NodeAt(data, p), "request") = FixedRequest
                    /\ HasKey(NodeAt(data, p), "response")
                          = HasKey(NodeAt(input, p), "response")
                    /\ HasKey(NodeAt(input, p), "response") =>
                          Get(NodeAt(data, p), "response")
                             = Get(NodeAt(input, p), "response")
              /\ errAt \notin RequestPaths(input) =>
                    NodeAt(data, errAt) = NodeAt(input, errAt)

\* The traversal aborted in the event loop of a leaf that follows a mutated
\* leaf and precedes an untouched one.
C9_Witness ==
    /\ WalkAborted
    /\ errAt \in RequestPaths(input)
    /\ \E p \in Logged : LexLess(p, errAt)
    /\ \E p \in RequestPaths(input) : LexLess(errAt, p)

(* C10: after a successful run every key a Request leaf had, other than    *)
(* request, response and event, has its prior value; the leaf gained no    *)
(* key other than request and response; the root has the keys it had and,  *)
(* "item" apart, their values. {item: [{name: "Get User"}]} yields the     *)
(* same with the fixed request and response added to the leaf.             *)
C10_OnlyThreeFields ==
    Succeeded =>
        /\ \A p \in RequestPaths(input) :
              LET a == NodeAt(input, p)
                  b == NodeAt(file.doc, p)
              IN  /\ IsDict(b)
                  /\ Keys(a) \subseteq Keys(b)
                  /\ Keys(b) \ Keys(a) \subseteq {"request", "response"}
                  /\ \A k \in Keys(a) \ {"request", "response", "event"} :
                        Get(b, k) = Get(a, k)
        /\ IsDict(file.doc)
        /\ file.doc.ks = input.ks
        /\ \A k \in Keys(input) \ {"item"} : Get(file.doc, k) = Get(input, k)
        /\ input = Dict(<<"item">>, <<List(<<Dict(<<"name">>, <<Str("Get User")>>)>>)>>)
              => file.doc = Dict(<<"item">>,
                                 <<List(<<Dict(<<"name", "request", "response">>,
                                               <<Str("Get User"), FixedRequest,
                                                 FixedResponse>>)>>)>>)

\* A run on a root with info and variable keys over a leaf with a
\* description that gained nothing but its request or response.
C10_Witness ==
    /\ Succeeded /\ runs = 1
    /\ HasKey(input, "info") /\ HasKey(input, "variable")
    /\ \E p \in RequestPaths(input) :
          /\ HasKey(NodeAt(input, p), "description")
          /\ NodeAt(file.doc, p) # NodeAt(input, p)

====
